---- MODULE Spec2Model ----
(***************************************************************************)
(* A model of ttest.h: the error_log class (append, append_if,             *)
(* incorporate, report, size) and the test_suite hierarchy (simple_test,   *)
(* compound_test, collect_errors), together with the two fixtures of       *)
(* framework_test.cpp.                                                     *)
(*                                                                         *)
(* Messages and names are TLA+ strings; "+" of std::string is \o.          *)
(*                                                                         *)
(* Three specifications share the variables:                               *)
(*   SpecLog   one thread calling the error_log interface on a few logs;   *)
(*   SpecTree  one thread calling run_test() on the nodes of a test tree;  *)
(*   SpecConc  threads calling append / incorporate on shared logs.        *)
(* A variable a specification does not use keeps its idle value.           *)
(***************************************************************************)
EXTENDS Integers, Sequences, FiniteSets, TLC

VARIABLES
  qualifying_name_,  \* error_log::qualifying_name_, per log
  log_,              \* error_log::log_, per log
  os,                \* the characters report() wrote to its ostream
  lastOp,            \* history: the last call made on the error_log interface
  pre,               \* history: log_ as it was when the last call started
  calls,             \* history: per log, the append/append_if calls made on it
  nops,              \* history: number of interface calls made so far
  kind,              \* per test_suite: "simple" (simple_test) or "compound"
  components,        \* compound_test::components, per node (<<>> for a leaf)
  test_,             \* simple_test::test_, per node: the messages it appends
  stack,             \* the call stack of run_test() activations
  runs,              \* history: the run_test() calls the caller has made
  trace,             \* history: the events of the current / last caller's run
  incorporate_mutex, \* error_log::incorporate_mutex, per log: 0 or the holder
  append_mutex,      \* error_log::append_mutex, per log: 0 or the holder
  job,               \* per thread: the call it makes
  pc,                \* per thread: where it is in that call
  local,             \* per thread: the loop position of incorporate, the
                     \* string being pushed, the vector push_back started from
  writer,            \* history: per log, the thread that pushed each message
  race               \* history: the kinds of data race on a log_ seen so far

vars == <<qualifying_name_, log_, os, lastOp, pre, calls, nops,
          kind, components, test_, stack, runs, trace,
          incorporate_mutex, append_mutex, job, pc, local, writer, race>>

logVars == <<os, lastOp, calls, nops>>
treeVars == <<kind, components, test_, stack, runs, trace>>
concVars == <<incorporate_mutex, append_mutex, job, pc, local, writer, race>>

----------------------------------------------------------------------------
(* Bounds *)

NumLogs == 2        \* error_log objects in SpecLog
MaxOps == 3         \* interface calls in one behaviour of SpecLog

MaxNodes == 3       \* nodes of a generated test tree in SpecTree
MaxRuns == 2        \* run_test() calls the caller makes in SpecTree
MaxUnnamed == 1     \* nodes of a test tree that carry the empty name

NumThreads == 2     \* threads of SpecConc, each making one call

LogIds == 1..NumLogs
Names == {"", "p"}          \* names given to the logs of SpecLog
Details == {"", "x"}        \* messages passed to append / append_if

----------------------------------------------------------------------------
(* error_log *)

\* Mutant of qualified: the separator is added for an empty message too.
qualified_always_separated(name, msg) == name \o "::" \o msg

\* The string append() pushes: line 50 or line 52.
qualified(name, msg) ==
  IF msg = "" THEN name ELSE name \o "::" \o msg

\* Mutant of append: the message is inserted at the front.
append_in_front(L, self, msg) ==
  [L EXCEPT ![self] = <<qualified(qualifying_name_[self], msg)>> \o @]

\* error_log::append(msg) on log self, as a function of the logs L.
append(L, self, msg) ==
  [L EXCEPT ![self] = Append(@, qualified(qualifying_name_[self], msg))]

\* Mutant of append_if: the condition is not looked at.
append_if_unconditional(L, self, msg, fail) == append(L, self, msg)

\* error_log::append_if(msg, fail)
append_if(L, self, msg, fail) ==
  IF fail THEN append(L, self, msg) ELSE L

\* The loop of error_log::incorporate from the i-th message of sublog on.
RECURSIVE incorporate_from(_, _, _, _)
incorporate_from(L, self, sublog, i) ==
  IF i > Len(L[sublog]) THEN L
  ELSE incorporate_from(append(L, self, L[sublog][i]), self, sublog, i + 1)

\* Mutant of incorporate: the loop starts at the second message.
incorporate_skipping_first(L, self, sublog) ==
  incorporate_from(L, self, sublog, 2)

\* error_log::incorporate(sublog) on log self.
incorporate(L, self, sublog) == incorporate_from(L, self, sublog, 1)

\* Mutant of report: '\n' between the messages, none after the last.
RECURSIVE report_unterminated(_)
report_unterminated(msgs) ==
  IF msgs = <<>> THEN ""
  ELSE IF Len(msgs) = 1 THEN Head(msgs)
  ELSE Head(msgs) \o "\n" \o report_unterminated(Tail(msgs))

\* error_log::report: each message followed by '\n'.
RECURSIVE report(_)
report(msgs) ==
  IF msgs = <<>> THEN "" ELSE Head(msgs) \o "\n" \o report(Tail(msgs))

\* error_log::size
size(L, self) == Len(L[self])

----------------------------------------------------------------------------
(* framework_test.cpp: logging_test builds a log named "test", makes four  *)
(* calls on it and reports it.                                             *)

logging_test_log ==
  LET n  == "test"
      l0 == <<>>
      l1 == Append(l0, qualified(n, "1"))
      l2 == IF FALSE THEN Append(l1, qualified(n, "2")) ELSE l1
      l3 == IF TRUE THEN Append(l2, qualified(n, "3")) ELSE l2
      l4 == Append(l3, qualified(n, ""))
  IN  l4

----------------------------------------------------------------------------
(* SpecLog: one thread, NumLogs logs, at most MaxOps calls. *)

\* The idle values of the variables of SpecConc.
ConcIdle ==
  /\ incorporate_mutex = <<>> /\ append_mutex = <<>>
  /\ job = <<>> /\ pc = <<>> /\ local = <<>> /\ writer = <<>>
  /\ race = {}

NoOp == [op |-> "none", self |-> 0, other |-> 0, msg |-> "", fail |-> FALSE]

InitLog ==
  /\ qualifying_name_ \in [LogIds -> Names]
  /\ log_ = [l \in LogIds |-> <<>>]
  /\ os = ""
  /\ lastOp = NoOp
  /\ pre = log_
  /\ calls = [l \in LogIds |-> <<>>]
  /\ nops = 0
  /\ kind = <<>> /\ components = <<>> /\ test_ = <<>>
  /\ stack = <<>> /\ runs = <<>> /\ trace = <<>>
  /\ ConcIdle

Step(op, self, other, msg, fail) ==
  /\ nops < MaxOps
  /\ nops' = nops + 1
  /\ lastOp' = [op |-> op, self |-> self, other |-> other, msg |-> msg,
                fail |-> fail]
  /\ pre' = log_
  /\ UNCHANGED <<qualifying_name_, treeVars, concVars>>

\* log.append(msg)
CallAppend(self, msg) ==
  /\ Step("append", self, 0, msg, TRUE)
  /\ log_' = append(log_, self, msg)
  /\ calls' = [calls EXCEPT ![self] = Append(@, [msg |-> msg, fail |-> TRUE])]
  /\ UNCHANGED os

\* log.append(): append({})
CallAppend0(self) ==
  /\ Step("append0", self, 0, "", TRUE)
  /\ log_' = append(log_, self, "")
  /\ calls' = [calls EXCEPT ![self] = Append(@, [msg |-> "", fail |-> TRUE])]
  /\ UNCHANGED os

\* log.append_if(msg, fail)
CallAppendIf(self, msg, fail) ==
  /\ Step("append_if", self, 0, msg, fail)
  /\ log_' = append_if(log_, self, msg, fail)
  /\ calls' = [calls EXCEPT ![self] = Append(@, [msg |-> msg, fail |-> fail])]
  /\ UNCHANGED os

\* log.append_if(fail): if (fail) append()
CallAppendIf0(self, fail) ==
  /\ Step("append_if0", self, 0, "", fail)
  /\ log_' = append_if(log_, self, "", fail)
  /\ calls' = [calls EXCEPT ![self] = Append(@, [msg |-> "", fail |-> fail])]
  /\ UNCHANGED os

\* log.incorporate(sublog), sublog another object than log
CallIncorporate(self, sublog) ==
  /\ self # sublog
  /\ Step("incorporate", self, sublog, "", FALSE)
  /\ log_' = incorporate(log_, self, sublog)
  /\ calls' = [calls EXCEPT ![self] = Append(@, [msg |-> "<incorporate>",
                                                   fail |-> FALSE])]
  /\ UNCHANGED os

\* log.report(os) on a fresh stream
CallReport(self) ==
  /\ Step("report", self, 0, "", FALSE)
  /\ os' = report(log_[self])
  /\ UNCHANGED <<log_, calls>>

\* log.size()
CallSize(self) ==
  /\ Step("size", self, 0, "", FALSE)
  /\ UNCHANGED <<log_, calls, os>>

\* logging_test of framework_test.cpp, on its own local log
LoggingTest ==
  /\ Step("logging_test", 0, 0, "", FALSE)
  /\ os' = report(logging_test_log)
  /\ UNCHANGED <<log_, calls>>

NextLog ==
  \/ \E l \in LogIds, d \in Details : CallAppend(l, d)
  \/ \E l \in LogIds : CallAppend0(l)
  \/ \E l \in LogIds, d \in Details, b \in BOOLEAN : CallAppendIf(l, d, b)
  \/ \E l \in LogIds, b \in BOOLEAN : CallAppendIf0(l, b)
  \/ \E l \in LogIds, o \in LogIds : CallIncorporate(l, o)
  \/ \E l \in LogIds : CallReport(l)
  \/ \E l \in LogIds : CallSize(l)
  \/ LoggingTest

SpecLog == InitLog /\ [][NextLog]_vars

----------------------------------------------------------------------------
(* test_suite, simple_test, compound_test *)

\* test_suite::error_count
error_count(n) == size(log_, n)

\* simple_test::do_test: test_(errors()), a procedure that appends the
\* messages msgs, in order, to the node's own log.
RECURSIVE do_test(_, _, _)
do_test(L, n, msgs) ==
  IF msgs = <<>> THEN L ELSE do_test(append(L, n, Head(msgs)), n, Tail(msgs))

\* Mutant of subtest: for_each walks the components from the last one.
subtest_reversed(n, i) == components[n][Len(components[n]) + 1 - i]

\* The child the lambda of collect_errors handles at step i of for_each.
subtest(n, i) == components[n][i]

\* Trees: node 1 is the root, nodes are numbered in declaration (preorder)
\* order, parent[i] is the group whose initializer list holds node i.
RECURSIVE OnPath(_, _, _)
OnPath(parent, a, b) ==
  \/ a = b
  \/ b > 1 /\ OnPath(parent, a, parent[b])

Shapes(n) ==
  {parent \in [1..n -> 0..(n - 1)] :
      /\ parent[1] = 0
      /\ \A i \in 2..n : parent[i] >= 1 /\ OnPath(parent, parent[i], i - 1)}

ChildrenOf(parent, n, g) ==
  SelectSeq([i \in 1..n |-> i], LAMBDA i : parent[i] = g)

NodeName(i) == <<"A", "B", "C", "D", "E", "F", "G">>[i]
Procs == {<<>>, <<"">>, <<"", "x">>}

\* create_test(name, f) and create_test(name, {...}) applied bottom-up.
TreeInit(n, parent, k, nm, t) ==
  /\ kind = k
  /\ components = [g \in 1..n |-> ChildrenOf(parent, n, g)]
  /\ test_ = t
  /\ qualifying_name_ = nm
  /\ log_ = [i \in 1..n |-> <<>>]

\* hierarchy_test of framework_test.cpp: compound{A, sub{B, C}}, each leaf
\* calling l.append().
hierarchy_test ==
  /\ kind = <<"compound", "simple", "compound", "simple", "simple">>
  /\ components = << <<2, 3>>, <<>>, <<4, 5>>, <<>>, <<>> >>
  /\ test_ = << <<>>, <<"">>, <<>>, <<"">>, <<"">> >>
  /\ qualifying_name_ = <<"compound", "A", "sub", "B", "C">>
  /\ log_ = [i \in 1..5 |-> <<>>]

InitTree ==
  /\ \/ \E n \in 1..MaxNodes : \E parent \in Shapes(n) :
          \E k \in [1..n -> {"simple", "compound"}] :
            /\ \A i \in 1..n :
                 ChildrenOf(parent, n, i) # <<>> => k[i] = "compound"
            /\ \E nm \in [1..n -> {""} \cup {NodeName(i) : i \in 1..n}] :
                 /\ \A i \in 1..n : nm[i] \in {"", NodeName(i)}
                 /\ Cardinality({i \in 1..n : nm[i] = ""}) <= MaxUnnamed
                 /\ \E t \in [1..n -> Procs] :
                      /\ \A i \in 1..n : k[i] = "compound" => t[i] = <<>>
                      /\ TreeInit(n, parent, k, nm, t)
     \/ hierarchy_test
  /\ stack = <<>>
  /\ runs = <<>>
  /\ trace = <<>>
  /\ pre = log_
  /\ os = "" /\ lastOp = NoOp /\ calls = <<>> /\ nops = 0
  /\ ConcIdle

Nodes == DOMAIN kind
Top == stack[Len(stack)]
Pop == SubSeq(stack, 1, Len(stack) - 1)
Frame(n) == [node |-> n, i |-> 1, ph |-> "call"]
Event(e, n, c) == [ev |-> e, node |-> n, sub |-> c]
Finish(res) == [runs EXCEPT ![Len(runs)].res = res]
TreeFrame == <<kind, components, test_, qualifying_name_, logVars, concVars>>

\* The caller calls n->run_test(); no earlier call ended in an exception.
RunTest(n) ==
  /\ stack = <<>>
  /\ Len(runs) < MaxRuns
  /\ \A r \in 1..Len(runs) : runs[r].res = "returned"
  /\ stack' = <<Frame(n)>>
  /\ runs' = Append(runs, [node |-> n, res |-> "running"])
  /\ trace' = <<Event("run", n, 0)>>
  /\ pre' = log_
  /\ UNCHANGED <<log_, TreeFrame>>

\* Mutant of SimpleRun: run_test() of a node whose log is not empty returns
\* without calling the procedure again.
SimpleRun_guarded ==
  /\ stack # <<>>
  /\ kind[Top.node] = "simple"
  /\ log_' = IF log_[Top.node] # <<>> THEN log_
             ELSE do_test(log_, Top.node, test_[Top.node])
  /\ stack' = Pop
  /\ trace' = Append(trace, Event("ret", Top.node, 0))
  /\ runs' = IF Len(stack) = 1 THEN Finish("returned") ELSE runs
  /\ UNCHANGED <<pre, TreeFrame>>

\* A simple_test's run_test(): do_test() calls test_(errors()) and returns.
SimpleRun ==
  /\ stack # <<>>
  /\ kind[Top.node] = "simple"
  /\ log_' = do_test(log_, Top.node, test_[Top.node])
  /\ stack' = Pop
  /\ trace' = Append(trace, Event("ret", Top.node, 0))
  /\ runs' = IF Len(stack) = 1 THEN Finish("returned") ELSE runs
  /\ UNCHANGED <<pre, TreeFrame>>

\* Mutant of SimpleThrow: run_test() catches the exception and returns.
SimpleThrow_swallowed(j) ==
  /\ stack # <<>>
  /\ kind[Top.node] = "simple"
  /\ j <= Len(test_[Top.node])
  /\ log_' = do_test(log_, Top.node, SubSeq(test_[Top.node], 1, j))
  /\ stack' = Pop
  /\ trace' = Append(trace, Event("throw", Top.node, 0))
  /\ runs' = IF Len(stack) = 1 THEN Finish("threw") ELSE runs
  /\ UNCHANGED <<pre, TreeFrame>>

\* A simple_test's procedure raises an exception after appending its first
\* j messages; nothing catches it, so every activation is unwound.
SimpleThrow(j) ==
  /\ stack # <<>>
  /\ kind[Top.node] = "simple"
  /\ j <= Len(test_[Top.node])
  /\ log_' = do_test(log_, Top.node, SubSeq(test_[Top.node], 1, j))
  /\ stack' = <<>>
  /\ trace' = Append(trace, Event("throw", Top.node, 0))
  /\ runs' = Finish("threw")
  /\ UNCHANGED <<pre, TreeFrame>>

\* collect_errors, first statement of the lambda: test->run_test()
CollectRun ==
  /\ stack # <<>>
  /\ kind[Top.node] = "compound"
  /\ Top.ph = "call"
  /\ Top.i <= Len(components[Top.node])
  /\ stack' = Append([stack EXCEPT ![Len(stack)].ph = "inc"],
                     Frame(subtest(Top.node, Top.i)))
  /\ trace' = Append(trace, Event("run", subtest(Top.node, Top.i), 0))
  /\ UNCHANGED <<log_, runs, pre, TreeFrame>>

\* Mutant of CollectIncorporate: the child's log is emptied once absorbed.
CollectIncorporate_draining ==
  /\ stack # <<>>
  /\ kind[Top.node] = "compound"
  /\ Top.ph = "inc"
  /\ log_' = [incorporate(log_, Top.node, subtest(Top.node, Top.i))
               EXCEPT ![subtest(Top.node, Top.i)] = <<>>]
  /\ stack' = [stack EXCEPT ![Len(stack)].ph = "call",
                            ![Len(stack)].i = @ + 1]
  /\ trace' = Append(trace, Event("inc", Top.node, subtest(Top.node, Top.i)))
  /\ UNCHANGED <<runs, pre, TreeFrame>>

\* Mutant of CollectIncorporate: only the messages the child recorded during
\* this run are incorporated.
CollectIncorporate_new_only ==
  /\ stack # <<>>
  /\ kind[Top.node] = "compound"
  /\ Top.ph = "inc"
  /\ log_' = incorporate_from(log_, Top.node, subtest(Top.node, Top.i),
                              Len(pre[subtest(Top.node, Top.i)]) + 1)
  /\ stack' = [stack EXCEPT ![Len(stack)].ph = "call",
                            ![Len(stack)].i = @ + 1]
  /\ trace' = Append(trace, Event("inc", Top.node, subtest(Top.node, Top.i)))
  /\ UNCHANGED <<runs, pre, TreeFrame>>

\* collect_errors, second statement: this->errors_.incorporate(test->errors_)
CollectIncorporate ==
  /\ stack # <<>>
  /\ kind[Top.node] = "compound"
  /\ Top.ph = "inc"
  /\ log_' = incorporate(log_, Top.node, subtest(Top.node, Top.i))
  /\ stack' = [stack EXCEPT ![Len(stack)].ph = "call",
                            ![Len(stack)].i = @ + 1]
  /\ trace' = Append(trace, Event("inc", Top.node, subtest(Top.node, Top.i)))
  /\ UNCHANGED <<runs, pre, TreeFrame>>

\* collect_errors: for_each reached subtests.end(); run_test() returns.
CompoundReturn ==
  /\ stack # <<>>
  /\ kind[Top.node] = "compound"
  /\ Top.ph = "call"
  /\ Top.i > Len(components[Top.node])
  /\ stack' = Pop
  /\ trace' = Append(trace, Event("ret", Top.node, 0))
  /\ runs' = IF Len(stack) = 1 THEN Finish("returned") ELSE runs
  /\ UNCHANGED <<log_, pre, TreeFrame>>

NextTree ==
  \/ \E n \in Nodes : RunTest(n)
  \/ SimpleRun
  \/ \E j \in 0..2 : SimpleThrow(j)
  \/ CollectRun
  \/ CollectIncorporate
  \/ CompoundReturn

SpecTree == InitTree /\ [][NextTree]_vars

\* The steps inside a run_test() call.  A leaf procedure that is called
\* ends, by returning or by an exception, and the statements of
\* collect_errors do not block, so a run in progress takes its next step.
RunStep ==
  \/ SimpleRun
  \/ \E j \in 0..2 : SimpleThrow(j)
  \/ CollectRun
  \/ CollectIncorporate
  \/ CompoundReturn

\* One run_test() call on the root of the tree, node 1.
RootRun == runs = <<>> /\ RunTest(1)

NextRoot == RootRun \/ RunStep

SpecTreeFair == InitTree /\ [][NextRoot]_vars /\ WF_vars(RunStep)

----------------------------------------------------------------------------
(* SpecSeq: every operation of one thread, on free-standing logs (the      *)
(* behaviours of SpecLog) or on a test tree (the behaviours of SpecTree).  *)

InitSeq == InitLog \/ InitTree

NextSeq ==
  \/ kind = <<>> /\ NextLog
  \/ kind # <<>> /\ NextTree

SpecSeq == InitSeq /\ [][NextSeq]_vars

----------------------------------------------------------------------------
(* SpecConc: NumThreads threads, each making one append, incorporate,      *)
(* size or report call on one of three logs that already hold two messages *)
(* each.                                                                   *)
(*                                                                         *)
(* std::vector::push_back is not atomic: it starts from the vector it      *)
(* finds (PushBegin) and leaves that vector with one more element          *)
(* (PushEnd).  incorporate reads sublog.log_ without holding a mutex of    *)
(* sublog.                                                                 *)

Threads == 1..NumThreads
Shared == 1..3
SharedName == <<"a", "b", "c">>

ThreadOps ==
  [op : {"append"}, self : Shared, other : {0}, msg : {"", "x"}] \cup
  {o \in [op : {"incorporate"}, self : Shared, other : Shared, msg : {""}] :
     o.self # o.other} \cup
  [op : {"size", "report"}, self : Shared, other : {0}, msg : {""}]

\* Threads are interchangeable, so they are numbered in the order of their
\* calls in this listing: one representative per assignment of calls.
OpRank(o) ==
  (CASE o.op = "append" -> 0 [] o.op = "incorporate" -> 1
     [] o.op = "size" -> 2 [] OTHER -> 3) * 100
  + o.self * 10 + o.other * 2 + (IF o.msg = "" THEN 0 ELSE 1)

NoLocal == [it |-> 0, end |-> 0, str |-> "", vec |-> <<>>, wr |-> <<>>]

InitConc ==
  /\ qualifying_name_ = SharedName
  /\ log_ = [l \in Shared |->
               <<qualified(SharedName[l], ""), qualified(SharedName[l], "x")>>]
  /\ writer = [l \in Shared |-> <<0, 0>>]
  /\ incorporate_mutex = [l \in Shared |-> 0]
  /\ append_mutex = [l \in Shared |-> 0]
  /\ job \in [Threads -> ThreadOps]
  /\ \A t \in Threads \ {NumThreads} : OpRank(job[t]) <= OpRank(job[t + 1])
  /\ pc = [t \in Threads |-> job[t].op]
  /\ local = [t \in Threads |-> NoLocal]
  /\ race = {}
  /\ pre = log_
  /\ os = "" /\ lastOp = NoOp /\ calls = <<>> /\ nops = 0
  /\ kind = <<>> /\ components = <<>> /\ test_ = <<>>
  /\ stack = <<>> /\ runs = <<>> /\ trace = <<>>

ConcFrame == <<qualifying_name_, pre, logVars, treeVars, job>>

\* Thread t is inside the range-for of incorporate over the vector of log l.
Iterating(t, l) ==
  /\ job[t].op = "incorporate"
  /\ job[t].other = l
  /\ pc[t] \notin {"incorporate", "done"}

\* Thread t is inside push_back on the vector of log l.
Pushing(t, l) == pc[t] = "pushing" /\ job[t].self = l

\* What goes wrong when thread t reads the vector of log l now, without a
\* mutex of l: another thread may be inside push_back on it.
ReadRace(t, l) ==
  IF \E u \in Threads \ {t} : Pushing(u, l)
  THEN {"read during push_back"} ELSE {}

\* What goes wrong when thread t enters push_back on the vector of log l
\* now: another thread may be inside push_back on it, or hold iterators
\* into it.
WriteRace(t, l) ==
  (IF \E u \in Threads \ {t} : Pushing(u, l)
   THEN {"push_back during push_back"} ELSE {}) \cup
  (IF \E u \in Threads \ {t} : Iterating(u, l)
   THEN {"push_back during iteration"} ELSE {})

\* Where incorporate goes with its iterator at i: the body, or past the loop.
LoopAt(t, i) == IF i <= local[t].end THEN "append" ELSE "inc_unlock"

\* The argument of the append call thread t is in.
Msg(t) ==
  IF job[t].op = "append" THEN job[t].msg
  ELSE log_[job[t].other][local[t].it]

\* Mutant of IncLock: incorporate enters its loop without incorporate_mutex.
IncLock_unguarded(t) ==
  /\ pc[t] = "incorporate"
  /\ local' = [local EXCEPT ![t].it = 1, ![t].end = Len(log_[job[t].other])]
  /\ pc' = [pc EXCEPT ![t] = IF Len(log_[job[t].other]) >= 1 THEN "append"
                              ELSE "inc_unlock"]
  /\ race' = race \cup ReadRace(t, job[t].other)
  /\ UNCHANGED <<log_, writer, incorporate_mutex, append_mutex, ConcFrame>>

\* incorporate, line 60: lock incorporate_mutex; line 61: begin() and end()
\* of sublog.log_.
IncLock(t) ==
  /\ pc[t] = "incorporate"
  /\ incorporate_mutex[job[t].self] = 0
  /\ incorporate_mutex' = [incorporate_mutex EXCEPT ![job[t].self] = t]
  /\ local' = [local EXCEPT ![t].it = 1, ![t].end = Len(log_[job[t].other])]
  /\ pc' = [pc EXCEPT ![t] = IF Len(log_[job[t].other]) >= 1 THEN "append"
                              ELSE "inc_unlock"]
  /\ race' = race \cup ReadRace(t, job[t].other)
  /\ UNCHANGED <<log_, writer, append_mutex, ConcFrame>>

\* Mutant of AppendLock: append goes on without append_mutex.
AppendLock_unguarded(t) ==
  /\ pc[t] = "append"
  /\ pc' = [pc EXCEPT ![t] = "push"]
  /\ UNCHANGED <<log_, writer, incorporate_mutex, append_mutex, local, race,
                 ConcFrame>>

\* Mutant of AppendLock: a direct append also waits for, and takes, the
\* incorporate_mutex of the log.
AppendLock_serialised(t) ==
  /\ pc[t] = "append"
  /\ append_mutex[job[t].self] = 0
  /\ append_mutex' = [append_mutex EXCEPT ![job[t].self] = t]
  /\ IF job[t].op = "append"
     THEN /\ incorporate_mutex[job[t].self] = 0
          /\ incorporate_mutex' = [incorporate_mutex EXCEPT ![job[t].self] = t]
     ELSE UNCHANGED incorporate_mutex
  /\ pc' = [pc EXCEPT ![t] = "push"]
  /\ UNCHANGED <<log_, writer, local, race, ConcFrame>>

\* append, line 48: lock append_mutex.
AppendLock(t) ==
  /\ pc[t] = "append"
  /\ append_mutex[job[t].self] = 0
  /\ append_mutex' = [append_mutex EXCEPT ![job[t].self] = t]
  /\ pc' = [pc EXCEPT ![t] = "push"]
  /\ UNCHANGED <<log_, writer, incorporate_mutex, local, race, ConcFrame>>

\* append, lines 49-53: read msg, build the string, enter push_back.
PushBegin(t) ==
  /\ pc[t] = "push"
  /\ local' = [local EXCEPT
       ![t].str = qualified(qualifying_name_[job[t].self], Msg(t)),
       ![t].vec = log_[job[t].self],
       ![t].wr = writer[job[t].self]]
  /\ pc' = [pc EXCEPT ![t] = "pushing"]
  /\ race' = race \cup WriteRace(t, job[t].self)
                   \cup (IF job[t].op = "incorporate"
                         THEN ReadRace(t, job[t].other) ELSE {})
  /\ UNCHANGED <<log_, writer, incorporate_mutex, append_mutex, ConcFrame>>

\* append, lines 50/52: push_back completes.
PushEnd(t) ==
  /\ pc[t] = "pushing"
  /\ log_' = [log_ EXCEPT ![job[t].self] = Append(local[t].vec, local[t].str)]
  /\ writer' = [writer EXCEPT ![job[t].self] = Append(local[t].wr, t)]
  /\ pc' = [pc EXCEPT ![t] = "unlock"]
  /\ UNCHANGED <<incorporate_mutex, append_mutex, local, race, ConcFrame>>

\* Mutant of AppendUnlock: append returns with append_mutex still locked.
AppendUnlock_leaky(t) ==
  /\ pc[t] = "unlock"
  /\ IF job[t].op = "append"
     THEN /\ pc' = [pc EXCEPT ![t] = "done"]
          /\ UNCHANGED local
     ELSE /\ pc' = [pc EXCEPT ![t] = LoopAt(t, local[t].it + 1)]
          /\ local' = [local EXCEPT ![t].it = @ + 1]
  /\ UNCHANGED <<log_, writer, incorporate_mutex, append_mutex, race,
                 ConcFrame>>

\* append, line 54: the lock_guard releases append_mutex; append returns to
\* its caller, which for incorporate is the loop at line 61.
AppendUnlock(t) ==
  /\ pc[t] = "unlock"
  /\ append_mutex' = [append_mutex EXCEPT ![job[t].self] = 0]
  /\ IF job[t].op = "append"
     THEN /\ pc' = [pc EXCEPT ![t] = "done"]
          /\ UNCHANGED local
     ELSE /\ pc' = [pc EXCEPT ![t] = LoopAt(t, local[t].it + 1)]
          /\ local' = [local EXCEPT ![t].it = @ + 1]
  /\ UNCHANGED <<log_, writer, incorporate_mutex, race, ConcFrame>>

\* incorporate, line 64: the lock_guard releases incorporate_mutex.
IncUnlock(t) ==
  /\ pc[t] = "inc_unlock"
  /\ incorporate_mutex' = [incorporate_mutex EXCEPT ![job[t].self] = 0]
  /\ pc' = [pc EXCEPT ![t] = "done"]
  /\ UNCHANGED <<log_, writer, append_mutex, local, race, ConcFrame>>

\* size(), line 29: log_.size(), no mutex taken.
SizeCall(t) ==
  /\ pc[t] = "size"
  /\ pc' = [pc EXCEPT ![t] = "done"]
  /\ local' = [local EXCEPT ![t].end = size(log_, job[t].self)]
  /\ race' = race \cup ReadRace(t, job[t].self)
  /\ UNCHANGED <<log_, writer, incorporate_mutex, append_mutex, ConcFrame>>

\* report(os), lines 66-70, on a stream of the thread's own: the loop over
\* log_, no mutex taken.
ReportCall(t) ==
  /\ pc[t] = "report"
  /\ pc' = [pc EXCEPT ![t] = "done"]
  /\ local' = [local EXCEPT ![t].str = report(log_[job[t].self])]
  /\ race' = race \cup ReadRace(t, job[t].self)
  /\ UNCHANGED <<log_, writer, incorporate_mutex, append_mutex, ConcFrame>>

NextConc ==
  \E t \in Threads :
    \/ IncLock(t)
    \/ AppendLock(t)
    \/ PushBegin(t)
    \/ PushEnd(t)
    \/ AppendUnlock(t)
    \/ IncUnlock(t)
    \/ SizeCall(t)
    \/ ReportCall(t)

SpecConc == InitConc /\ [][NextConc]_vars

----------------------------------------------------------------------------
(* Helpers of the properties *)

Range(f) == {f[i] : i \in DOMAIN f}
Count(m, msgs) == Cardinality({i \in DOMAIN msgs : msgs[i] = m})
IsPrefix(a, b) == Len(a) <= Len(b) /\ SubSeq(b, 1, Len(a)) = a

\* The caller has made exactly k calls of run_test() and all have returned.
Returned(k) ==
  /\ Len(runs) = k
  /\ stack = <<>>
  /\ \A r \in 1..k : runs[r].res = "returned"

LastRun == runs[Len(runs)]

\* The nodes of the subtree rooted at n.
RECURSIVE Subtree(_)
Subtree(n) == {n} \cup UNION {Subtree(components[n][i]) :
                                i \in 1..Len(components[n])}

Leaves(n) == {l \in Subtree(n) : kind[l] = "simple"}

ParentOf(n) ==
  IF \E g \in Nodes : n \in Range(components[g])
  THEN CHOOSE g \in Nodes : n \in Range(components[g])
  ELSE 0

\* The names from the root down to n, joined by "::".
RECURSIVE Path(_)
Path(n) ==
  IF ParentOf(n) = 0 THEN qualifying_name_[n]
  ELSE Path(ParentOf(n)) \o "::" \o qualifying_name_[n]

\* The message the claims expect for the j-th failure a leaf appends.
PathMessage(l, j) ==
  IF test_[l][j] = "" THEN Path(l) ELSE Path(l) \o "::" \o test_[l][j]

Failures(n) == {<<l, j>> \in Nodes \X (1..2) :
                  l \in Leaves(n) /\ j <= Len(test_[l])}

RECURSIVE SumOver(_, _)
SumOver(S, f) ==
  IF S = {} THEN 0
  ELSE LET x == CHOOSE y \in S : TRUE IN f[x] + SumOver(S \ {x}, f)

IsHierarchyTest == qualifying_name_ = <<"compound", "A", "sub", "B", "C">>

----------------------------------------------------------------------------
(* C1 *)

\* C1 (as claimed): after one run_test() on the root of a fresh tree, the
\* root's log holds exactly one message per failure a leaf appended, each
\* being the names on the path root..leaf joined by "::" (plus "::" detail
\* for a non-empty detail); for compound{A, sub{B, C}} the count is 3 and the
\* messages are compound::A, compound::sub::B, compound::sub::C.
C1_RootLogHoldsPaths ==
  (Returned(1) /\ runs[1].node = 1) =>
     /\ error_count(1) = Cardinality(Failures(1))
     /\ \A m \in Range(log_[1]) \cup
                 {PathMessage(f[1], f[2]) : f \in Failures(1)} :
          Count(m, log_[1]) =
            Cardinality({f \in Failures(1) : PathMessage(f[1], f[2]) = m})
     /\ IsHierarchyTest =>
          /\ error_count(1) = 3
          /\ Range(log_[1]) =
               {"compound::A", "compound::sub::B", "compound::sub::C"}

----------------------------------------------------------------------------
(* C2 *)

\* C2 (as claimed): incorporate(other) appends exactly other.size() messages
\* to the end of self, the i-th being self's name + "::" + other's i-th
\* message, and leaves other's list unchanged.
C2_IncorporatePrefixesEach ==
  lastOp.op = "incorporate" =>
     /\ log_[lastOp.self] =
          pre[lastOp.self] \o
            [i \in 1..Len(pre[lastOp.other]) |->
               qualifying_name_[lastOp.self] \o "::" \o pre[lastOp.other][i]]
     /\ log_[lastOp.other] = pre[lastOp.other]

----------------------------------------------------------------------------
(* C3 *)

\* What a group's log gains when it incorporates child c: one block.
Block(g, c) ==
  [i \in 1..Len(log_[c]) |->
     IF log_[c][i] = "" THEN qualifying_name_[g]
     ELSE qualifying_name_[g] \o "::" \o log_[c][i]]

RECURSIVE Blocks(_, _)
Blocks(g, k) ==
  IF k = 0 THEN <<>> ELSE Blocks(g, k - 1) \o Block(g, components[g][k])

\* Number of children group g has incorporated in the current run.
Incorporated(g) ==
  Cardinality({p \in DOMAIN trace : trace[p].ev = "inc" /\ trace[p].node = g})

IndexIn(g, c) == CHOOSE i \in DOMAIN components[g] : components[g][i] = c

\* The log a first run leaves in node n, in order.
RECURSIVE Flat(_)
RECURSIVE FlatChildren(_, _)
Flat(n) ==
  IF kind[n] = "simple"
  THEN [j \in 1..Len(test_[n]) |->
          IF test_[n][j] = "" THEN qualifying_name_[n]
          ELSE qualifying_name_[n] \o "::" \o test_[n][j]]
  ELSE FlatChildren(n, Len(components[n]))
FlatChildren(n, k) ==
  IF k = 0 THEN <<>>
  ELSE FlatChildren(n, k - 1) \o
       LET sub == Flat(components[n][k])
       IN  [i \in 1..Len(sub) |->
              IF sub[i] = "" THEN qualifying_name_[n]
              ELSE qualifying_name_[n] \o "::" \o sub[i]]

----------------------------------------------------------------------------
(* C4 *)

AllDone == \A t \in Threads : pc[t] = "done"

\* All threads call append on log l.
AllAppendTo(l) ==
  \A t \in Threads : job[t].op = "append" /\ job[t].self = l

\* C4: when the N threads each make one append call on the same log, the
\* log ends with its initial messages followed by exactly N more, one message
\* of each thread.
C4_ConcurrentAppendsAllLand ==
  \A l \in DOMAIN writer :
    (AllDone /\ AllAppendTo(l)) =>
       /\ Len(log_[l]) = Len(pre[l]) + NumThreads
       /\ IsPrefix(pre[l], log_[l])
       /\ \A t \in Threads :
            /\ Count(t, writer[l]) = 1
            /\ \E i \in DOMAIN log_[l] :
                 /\ writer[l][i] = t
                 /\ log_[l][i] = IF job[t].msg = "" THEN qualifying_name_[l]
                                 ELSE qualifying_name_[l] \o "::" \o job[t].msg

C4_Witness ==
  /\ pc # <<>>
  /\ AllDone
  /\ \E l \in DOMAIN writer :
       /\ AllAppendTo(l)
       /\ Len(log_[l]) = Len(pre[l]) + NumThreads
       /\ \E t \in Threads : job[t].msg = ""

----------------------------------------------------------------------------
(* C5 *)

\* Threads t and u incorporate different sources, which no thread writes,
\* into the same target.
IncorporateSameTarget(t, u) ==
  /\ t # u
  /\ job[t].op = "incorporate" /\ job[u].op = "incorporate"
  /\ job[t].self = job[u].self
  /\ job[t].other # job[u].other
  /\ \A v \in Threads : job[v].self \notin {job[t].other, job[u].other}

\* C5: when two threads incorporate into the same target, no message of one
\* incorporation lies between two messages of the other.
C5_IncorporationsDoNotInterleave ==
  \A t, u \in DOMAIN job :
    IncorporateSameTarget(t, u) =>
      LET w == writer[job[t].self]
      IN  ~ \E i, j, k \in DOMAIN w :
              i < j /\ j < k /\ w[i] = t /\ w[j] = u /\ w[k] = t

\* Both incorporations are complete, each with two messages in the target.
C5_Witness ==
  \E t, u \in DOMAIN job :
    /\ IncorporateSameTarget(t, u)
    /\ pc[t] = "done" /\ pc[u] = "done"
    /\ Count(t, writer[job[t].self]) = 2
    /\ Count(u, writer[job[t].self]) = 2

----------------------------------------------------------------------------
(* C6 *)

\* C6: run_test() twice on a leaf that appends the same k >= 1 failures each
\* time gives error_count() = 2k, twice the count after the first run.
C6_LeafTwiceDoubles ==
  \A n \in Nodes :
    (/\ Returned(2)
     /\ runs[1].node = n /\ runs[2].node = n
     /\ kind[n] = "simple"
     /\ Len(test_[n]) >= 1) =>
       /\ Len(pre[n]) = Len(test_[n])
       /\ error_count(n) = 2 * Len(test_[n])
       /\ error_count(n) = 2 * Len(pre[n])

C6_Witness ==
  /\ Returned(2)
  /\ runs[1].node = runs[2].node
  /\ kind[runs[1].node] = "simple"
  /\ Len(test_[runs[1].node]) = 2
  /\ error_count(runs[1].node) = 4

----------------------------------------------------------------------------
(* C7 *)

\* C7 (as claimed): run_test() twice on the same node, leaf or group, puts a
\* second batch on top of the first and doubles error_count() of every node
\* that had failures after the first run.
C7_SecondRunDoubles ==
  (Returned(2) /\ runs[1].node = runs[2].node) =>
     \A m \in Nodes :
       pre[m] # <<>> =>
          /\ IsPrefix(pre[m], log_[m])
          /\ error_count(m) = 2 * Len(pre[m])

----------------------------------------------------------------------------
(* C8 *)

RecordedInRun == [l \in Nodes |-> Len(log_[l]) - Len(pre[l])]

\* C8 (as claimed): error_count() is the number of messages of the node's
\* log, and after any run_test() of a group, the first or a later one, it is
\* the sum of the failures its descendant leaves recorded during that run.
C8_GroupCountIsRunSum ==
  /\ \A n \in Nodes : error_count(n) = Len(log_[n])
  /\ (runs # <<>> /\ Returned(Len(runs)) /\ kind[LastRun.node] = "compound")
       => error_count(LastRun.node) =
            SumOver(Leaves(LastRun.node), RecordedInRun)

\* C8 (amended): the same, for a run_test() of a group that started with
\* the logs of the group and of all its descendants empty.
C8_FreshGroupCountIsRunSum ==
  /\ \A n \in Nodes : error_count(n) = Len(log_[n])
  /\ (/\ runs # <<>> /\ Returned(Len(runs))
      /\ kind[LastRun.node] = "compound"
      /\ \A m \in Subtree(LastRun.node) : pre[m] = <<>>)
       => error_count(LastRun.node) =
            SumOver(Leaves(LastRun.node), RecordedInRun)

\* A group is run, with empty logs in its subtree, after a node outside it
\* was run, and counts at least two failures.
C8_Witness ==
  /\ Returned(2)
  /\ kind[LastRun.node] = "compound"
  /\ \A m \in Subtree(LastRun.node) : pre[m] = <<>>
  /\ \E m \in Nodes : pre[m] # <<>>
  /\ error_count(LastRun.node) >= 2

----------------------------------------------------------------------------
(* C9 *)

\* C9: every message stored in a log is the log's qualifying name, or that
\* name followed by "::" and a non-empty detail.
C9_MessagesCarryOwnName ==
  \A l \in DOMAIN log_ : \A i \in DOMAIN log_[l] :
    LET m == log_[l][i]
        n == qualifying_name_[l]
    IN  \/ m = n
        \/ /\ Len(m) > Len(n) + 2
           /\ SubSeq(m, 1, Len(n) + 2) = n \o "::"

\* A log with a non-empty name has incorporated the empty message of a log
\* with the empty name, and holds a message with a detail too.
C9_Witness ==
  /\ lastOp.op = "incorporate"
  /\ qualifying_name_[lastOp.self] # ""
  /\ "" \in Range(pre[lastOp.other])
  /\ \E i \in DOMAIN log_[lastOp.self] :
       log_[lastOp.self][i] # qualifying_name_[lastOp.self]

----------------------------------------------------------------------------
(* C10 *)

\* What the claims expect report to print after the calls cs on a log.
RECURSIVE ExpectedReport(_, _)
ExpectedReport(name, cs) ==
  IF cs = <<>> THEN ""
  ELSE (IF Head(cs).fail
        THEN (IF Head(cs).msg = "" THEN name
              ELSE name \o "::" \o Head(cs).msg) \o "\n"
        ELSE "") \o ExpectedReport(name, Tail(cs))

\* The lines of a stream: the pieces that end in '\n'.
RECURSIVE SplitLines(_, _, _)
SplitLines(s, from, i) ==
  IF i > Len(s) THEN <<>>
  ELSE IF SubSeq(s, i, i) = "\n"
       THEN <<SubSeq(s, from, i - 1)>> \o SplitLines(s, i + 1, i + 1)
       ELSE SplitLines(s, from, i + 1)

OnlyAppends(l) == \A i \in DOMAIN calls[l] : calls[l][i].msg # "<incorporate>"

\* C10: report writes the stored messages, one per line, in insertion
\* order; after append / append_if calls only, these are the messages of the
\* calls that were unconditional or had a true condition, in call order; and
\* logging_test's report is test::1, test::3, test.
C10_ReportListsMessages ==
  /\ lastOp.op = "report" =>
       /\ SplitLines(os, 1, 1) = log_[lastOp.self]
       /\ Len(os) = SumOver(DOMAIN log_[lastOp.self],
                            [i \in DOMAIN log_[lastOp.self] |->
                               Len(log_[lastOp.self][i]) + 1])
       /\ OnlyAppends(lastOp.self) =>
            os = ExpectedReport(qualifying_name_[lastOp.self],
                                calls[lastOp.self])
  /\ lastOp.op = "logging_test" => os = "test::1\ntest::3\ntest\n"

\* A report of a log after a refused append_if and an accepted append.
C10_Witness ==
  /\ lastOp.op = "report"
  /\ OnlyAppends(lastOp.self)
  /\ \E i \in DOMAIN calls[lastOp.self] : ~calls[lastOp.self][i].fail
  /\ Len(log_[lastOp.self]) >= 1
  /\ Len(SplitLines(os, 1, 1)) >= 1

----------------------------------------------------------------------------
(* C11 *)

\* C11: append adds exactly one message at the end of the log, the name
\* alone for an empty or absent detail and name + "::" + detail otherwise,
\* and changes no other log.
C11_AppendAddsOneMessage ==
  lastOp.op \in {"append", "append0"} =>
     /\ log_[lastOp.self] =
          pre[lastOp.self] \o
            << IF lastOp.msg = "" THEN qualifying_name_[lastOp.self]
               ELSE qualifying_name_[lastOp.self] \o "::" \o lastOp.msg >>
     /\ \A l \in DOMAIN log_ : l # lastOp.self => log_[l] = pre[l]

\* append() without a detail on a log that already holds a message with one.
C11_Witness ==
  /\ lastOp.op = "append0"
  /\ qualifying_name_[lastOp.self] # ""
  /\ \E i \in DOMAIN pre[lastOp.self] :
       pre[lastOp.self][i] # qualifying_name_[lastOp.self]
  /\ Len(log_[lastOp.self]) = Len(pre[lastOp.self]) + 1

----------------------------------------------------------------------------
(* C12 *)

\* C12 (as claimed): append_if with a false condition leaves every log
\* unchanged; append_if(msg, true) adds exactly one message, equal to
\* name + "::" + msg.
C12_AppendIfTrueAddsSeparated ==
  lastOp.op \in {"append_if", "append_if0"} =>
     IF ~lastOp.fail THEN log_ = pre
     ELSE lastOp.op = "append_if" =>
            log_ = [pre EXCEPT ![lastOp.self] =
                      Append(@, qualifying_name_[lastOp.self] \o "::"
                                  \o lastOp.msg)]

\* C12 (amended): the same, the message added for a true condition being
\* the name alone when msg is empty.
C12_AppendIfFollowsCondition ==
  lastOp.op \in {"append_if", "append_if0"} =>
     IF ~lastOp.fail THEN log_ = pre
     ELSE log_ = [pre EXCEPT ![lastOp.self] =
                    Append(@, IF lastOp.msg = ""
                              THEN qualifying_name_[lastOp.self]
                              ELSE qualifying_name_[lastOp.self] \o "::"
                                     \o lastOp.msg)]

\* A refused append_if on a log on which append_if("", true) was accepted.
C12_Witness ==
  /\ lastOp.op = "append_if"
  /\ ~lastOp.fail
  /\ lastOp.msg # ""
  /\ log_[lastOp.self] # <<>>
  /\ \E i \in DOMAIN calls[lastOp.self] :
       calls[lastOp.self][i] = [msg |-> "", fail |-> TRUE]

----------------------------------------------------------------------------
(* C13 *)

\* C13: an exception of a leaf procedure leaves every enclosing run_test():
\* it is the last event of the run and the caller sees it; neither the
\* leaf's log nor the log of a group around it is incorporated in that run,
\* no later sibling is run, and every log keeps what it held (the groups
\* what they held plus the blocks incorporated before the exception).
C13_ExceptionPropagates ==
  \A p \in DOMAIN trace :
    trace[p].ev = "throw" =>
      LET l == trace[p].node IN
      /\ p = Len(trace)
      /\ stack = <<>>
      /\ LastRun.res = "threw"
      /\ \A q \in DOMAIN trace :
           trace[q].ev = "inc" => l \notin Subtree(trace[q].sub)
      /\ \A g \in Nodes : \A i, k \in DOMAIN components[g] :
           (l \in Subtree(components[g][i]) /\ k > i) =>
              \A q \in DOMAIN trace : trace[q].node # components[g][k]
      /\ \A m \in Nodes : IsPrefix(pre[m], log_[m])
      /\ \A g \in Nodes :
           kind[g] = "compound" =>
              log_[g] = pre[g] \o Blocks(g, Incorporated(g))

\* A leaf threw after appending a message, after a group around it had
\* incorporated an earlier child, and with a later sibling still to run.
C13_Witness ==
  /\ trace # <<>>
  /\ trace[Len(trace)].ev = "throw"
  /\ LET l == trace[Len(trace)].node
         g == ParentOf(l)
     IN  /\ g # 0
         /\ log_[l] # pre[l]
         /\ \E a \in Nodes : l \in Subtree(a) /\ log_[a] # pre[a] /\ a # l
         /\ IndexIn(g, l) < Len(components[g])

----------------------------------------------------------------------------
(* C14 *)

\* C14 (as claimed): error_log is thread-safe: no thread reads a log's
\* message list (size(), report(), or incorporate() iterating over its
\* source) while another thread is inside append() modifying that list.
C14_NoReadDuringAppend ==
  race \cap {"read during push_back", "push_back during iteration"} = {}

----------------------------------------------------------------------------
(* C15 *)

\* C15: a direct append takes only the append_mutex of its log, never an
\* incorporate_mutex, and so is not held back by an incorporation in
\* progress on that log: it can land between two messages of the batch
\* (the state C15_Witness, which is reachable).
C15_DirectAppendTakesOnlyAppendMutex ==
  \A t \in DOMAIN job :
    job[t].op = "append" =>
      /\ \A l \in Shared : incorporate_mutex[l] # t
      /\ \A l \in Shared : append_mutex[l] = t => l = job[t].self
      /\ (pc[t] = "append" /\ append_mutex[job[t].self] = 0) =>
           ENABLED AppendLock(t)

\* The message of a direct append lies between two messages of one
\* incorporation into the same log.
C15_Witness ==
  \E t, u \in DOMAIN job :
    /\ job[t].op = "incorporate"
    /\ job[u].op = "append"
    /\ job[u].self = job[t].self
    /\ LET w == writer[job[t].self]
       IN  \E i, j, k \in DOMAIN w :
             i < j /\ j < k /\ w[i] = t /\ w[j] = u /\ w[k] = t

----------------------------------------------------------------------------
(* C16 *)

\* A step of report, size or logging_test (error_count is size).
ReadOnlyStep ==
  nops' # nops /\ lastOp'.op \in {"report", "size", "logging_test"}

\* C16: every log is append-only: over any step of any operation the
\* message list of each log before the step is a prefix of the list after
\* it, and report and size change no log.
C16_LogsAppendOnly ==
  [][/\ DOMAIN log_' = DOMAIN log_
     /\ \A l \in DOMAIN log_ : IsPrefix(log_[l], log_'[l])
     /\ ReadOnlyStep => log_' = log_]_vars

\* An incorporate has extended a log that already held messages, and a tree
\* has been run twice.
C16_Witness ==
  \/ /\ lastOp.op = "incorporate"
     /\ pre[lastOp.self] # <<>>
     /\ Len(log_[lastOp.self]) > Len(pre[lastOp.self])
  \/ /\ Returned(2)
     /\ kind[LastRun.node] = "compound"
     /\ pre[LastRun.node] # <<>>
     /\ Len(log_[LastRun.node]) > Len(pre[LastRun.node])

----------------------------------------------------------------------------
(* C17 *)

\* C17: a run_test() called on a node changes no log outside that node's
\* subtree; and each step of a run writes at most the log of the node
\* executing it: calling a child's run_test() and returning write nothing,
\* incorporate writes the group's log only (never the child's), a leaf
\* procedure writes the leaf's log only.
C17_RunWritesOwnSubtreeOnly ==
  [][trace' # trace =>
       LET e == trace'[Len(trace')]
           r == runs'[Len(runs')].node
       IN  /\ \A m \in DOMAIN log_ :
                m \notin Subtree(r) => log_'[m] = pre'[m]
           /\ \A m \in DOMAIN log_ : m # e.node => log_'[m] = log_[m]
           /\ (e.ev = "run" \/ (e.ev = "ret" /\ kind[e.node] = "compound"))
                => log_' = log_]_vars

\* After a run of the root, a run called on a node below it has added to
\* that node's log and left the root's log as it was.
C17_Witness ==
  /\ Returned(2)
  /\ runs[1].node = 1
  /\ runs[2].node # 1
  /\ log_[runs[2].node] # pre[runs[2].node]
  /\ pre[1] # <<>>
  /\ log_[1] = pre[1]

----------------------------------------------------------------------------
(* C18 *)

\* The leaves below n in depth-first declared order.
RECURSIVE DFSLeaves(_)
RECURSIVE DFSLeavesOf(_, _)
DFSLeaves(n) ==
  IF kind[n] = "simple" THEN <<n>>
  ELSE DFSLeavesOf(n, Len(components[n]))
DFSLeavesOf(n, k) ==
  IF k = 0 THEN <<>>
  ELSE DFSLeavesOf(n, k - 1) \o DFSLeaves(components[n][k])

\* The leaves whose procedure has been invoked in the current run, in order.
Invoked ==
  LET done == SelectSeq(trace, LAMBDA e : e.ev \in {"ret", "throw"}
                                          /\ kind[e.node] = "simple")
  IN  [i \in 1..Len(done) |-> done[i].node]

\* C18: a run_test() in progress ends; during it the leaf procedures are
\* invoked in depth-first declared order, and when it has returned each leaf
\* of the subtree has been invoked exactly once.
C18_RunTerminatesEachLeafOnce ==
  /\ (stack # <<>>) ~> (stack = <<>>)
  /\ [](runs # <<>> =>
          /\ IsPrefix(Invoked, DFSLeaves(LastRun.node))
          /\ (stack = <<>> /\ LastRun.res = "returned") =>
                Invoked = DFSLeaves(LastRun.node))

\* A run over a nested group with three leaves in all has returned.
C18_Witness ==
  /\ Returned(1)
  /\ Len(Invoked) = 3
  /\ \E g \in Nodes : g # LastRun.node /\ kind[g] = "compound"
                       /\ components[g] # <<>>

----------------------------------------------------------------------------
(* C19 *)

\* The next statement of thread t can execute: t is not blocked on a lock.
CanStep(t) ==
  ENABLED (\/ IncLock(t) \/ AppendLock(t) \/ PushBegin(t) \/ PushEnd(t)
           \/ AppendUnlock(t) \/ IncUnlock(t) \/ SizeCall(t) \/ ReportCall(t))

\* C19: the two mutexes cannot deadlock: while a thread is unfinished, some
\* unfinished thread can take its next step.  A thread holds only mutexes of
\* its own target log, an incorporating thread holds append_mutex only
\* while it holds incorporate_mutex, and append_mutex is held only inside a
\* single append.
C19_NoDeadlock ==
  /\ (\E t \in Threads : pc[t] # "done")
       => \E t \in Threads : pc[t] # "done" /\ CanStep(t)
  /\ \A l \in Shared :
       /\ incorporate_mutex[l] # 0 =>
            /\ job[incorporate_mutex[l]].op = "incorporate"
            /\ job[incorporate_mutex[l]].self = l
            /\ pc[incorporate_mutex[l]] \notin {"incorporate", "done"}
       /\ append_mutex[l] # 0 =>
            /\ job[append_mutex[l]].self = l
            /\ pc[append_mutex[l]] \in {"push", "pushing", "unlock"}
            /\ job[append_mutex[l]].op = "incorporate"
                 => incorporate_mutex[l] = append_mutex[l]

\* Two threads incorporate in opposite directions between the same two
\* logs, each holding the incorporate_mutex of its target, one of them
\* inside an append.
C19_Witness ==
  \E t, u \in Threads :
    /\ t # u
    /\ job[t].op = "incorporate" /\ job[u].op = "incorporate"
    /\ job[t].self = job[u].other /\ job[t].other = job[u].self
    /\ incorporate_mutex[job[t].self] = t
    /\ incorporate_mutex[job[u].self] = u
    /\ append_mutex[job[t].self] = t
    /\ pc[u] = "append"

----------------------------------------------------------------------------
(* C20 *)

\* Group g has leaf l as its only child, l records one failure per
\* invocation, and all n runs so far were run_test() calls on g that returned.
OnlyChildRunThrough(g, l, n) ==
  /\ kind[g] = "compound" /\ components[g] = <<l>>
  /\ kind[l] = "simple" /\ Len(test_[l]) = 1
  /\ Returned(n)
  /\ \A r \in 1..n : runs[r].node = g

\* C20: after n consecutive runs of a group whose only child is a leaf
\* recording one failure per invocation, the leaf holds n messages and the
\* group n(n+1)/2.
C20_TriangularGroupCount ==
  \A g, l \in Nodes : \A n \in 1..MaxRuns :
    OnlyChildRunThrough(g, l, n) =>
      /\ error_count(l) = n
      /\ error_count(g) = (n * (n + 1)) \div 2

\* Two runs of such a group have returned and the group holds 3 messages.
C20_Witness ==
  \E g, l \in Nodes :
    /\ OnlyChildRunThrough(g, l, 2)
    /\ error_count(g) = 3

====
